---- MODULE Spec2Model ----
(***************************************************************************)
(* LawSphere backend: the retrieval server (server.js lines 1-191, with   *)
(* the older variant unnamed/part_000), the multi-document ingestion      *)
(* script with the direct HTTP transport (server.js lines 192-402), the   *)
(* client-library ingestion (debug_pdf.js) and the single-PDF ingestion   *)
(* with the fixed-stride chunker (ingest.js).                             *)
(*                                                                         *)
(* Node runs each program on one thread: a handler runs without           *)
(* interruption up to its next await, so every action below is one such   *)
(* run-to-await segment, and the outcome of the awaited call (a model     *)
(* load, an inference, a store query, an upsert) is chosen by the         *)
(* environment in the action that resumes the handler.                    *)
(***************************************************************************)
EXTENDS Integers, Sequences, FiniteSets, TLC

\* ------------------------------------------------------------------------
\* Bounds
\* ------------------------------------------------------------------------
\* concurrent HTTP requests the server model follows
MaxReqs == 2
\* longest match list drawn for the /compare merge
MaxMatches == 2
\* longest raw text (in characters) given to the fixed-stride chunker
MaxTextLen == 2600
\* most components of a model output given to getEmbedding
EmbedDim == 2
\* most chunks the splitter returns for one document
MaxChunks == 3
\* most chunks of a whole corpus that is ingested twice
MaxReChunks == 3
\* BATCH_SIZE of the ingestion (server.js:211 sets 50), scaled down so that
\* full batches and remainders both occur within MaxChunks
BATCH_SIZE == 2

\* ------------------------------------------------------------------------
\* Program constants
\* ------------------------------------------------------------------------
\* server.js:143  uniqueContext.length < 50
MIN_CONTEXT == 50
\* ingest.js:14
CHUNK_SIZE == 1000
\* ingest.js:15
OVERLAP == 200
\* ingest.js:83  chunk.length > 100
MIN_CHUNK == 100

VARIABLES
    \* --- retrieval server process (server.js 1-191) ---
    embedder,     \* server.js:27   FALSE = null, TRUE = pipeline loaded
    loadStarts,   \* number of pipeline() calls started by loadModel (server.js:31)
    startup,      \* position of the app.listen callback (server.js:188-191)
    req,          \* per request: position and locals of its route handler
    \* --- /compare merge as a function of the two match lists ---
    mpc, result1, result2, uniqueTexts,
    \* --- fixed-stride chunker of ingest.js (79-84) ---
    cpc,          \* "loop" while the for loop runs, "done" after it
    rawLen,       \* rawText.length
    ci,           \* the loop variable i
    chunks,       \* the chunks pushed so far, each as <<from, to>>: text[from, to)
    \* --- getEmbedding as a function of the model output ---
    epc,          \* "called" or "settled"
    variant,      \* which getEmbedding: "ingestion", "server", "debug_pdf"
    modelOut,     \* output.data of the inference, a sequence of components
    embedding,    \* what getEmbedding returned, or EmbeddingError
    \* --- multi-document ingestion (server.js 192-402) ---
    ipc,          \* position of main
    indexHost,    \* server.js:220
    ingEmbedder,  \* server.js:219  FALSE = null
    files,        \* the PDFs of DATA_DIR in listing order, with their content
    fi,           \* the file main's loop is at (1-based)
    pf,           \* processFile: position, locals, and what it did so far
    totalVectors, \* server.js:393
    processed,    \* per file processFile returned for, in order: its result
    store,        \* the records the vector store holds in NAMESPACE
    twice,        \* whether the script is going to be run a second time
    script,       \* which ingestion script runs: "http" (server.js 192-402)
                  \* or "sdk" (debug_pdf.js)
    run,          \* "first" or "second" run of the script
    runLog,       \* outcomes the environment gave this run (kept when twice)
    firstRun      \* store and runLog at the end of the first run

srvVars == <<embedder, loadStarts, startup, req>>
mergeVars == <<mpc, result1, result2, uniqueTexts>>
chunkVars == <<cpc, rawLen, ci, chunks>>
embedVars == <<epc, variant, modelOut, embedding>>
ingVars == <<ipc, indexHost, ingEmbedder, files, fi, pf, totalVectors, processed,
             store, twice, script, run, runLog, firstRun>>
vars == <<embedder, loadStarts, startup, req, mpc, result1, result2, uniqueTexts,
          cpc, rawLen, ci, chunks, epc, variant, modelOut, embedding,
          ipc, indexHost, ingEmbedder, files, fi, pf, totalVectors, processed,
          store, twice, script, run, runLog, firstRun>>

\* how an async call settles: it returns a value or it throws
Returned(v) == [threw |-> FALSE, value |-> v]

\* ------------------------------------------------------------------------
\* Matches and context assembly (server.js 70-75, 140-145)
\* ------------------------------------------------------------------------
\* A match is [id, meta]; meta is <<>> when the record carries no metadata
\* (m.metadata is undefined) and <<[source |-> s, text |-> t]>> otherwise.
Meta(s, t) == <<[source |-> s, text |-> t]>>

LongText == "Whoever commits theft shall be punished with imprisonment"

\* Match 1 and match 2 are different records (different source, different
\* text) that render to the same passage; match 3 stores the content of
\* match 1 under another id; match 5 has no metadata.
MatchPool ==
    { [id |-> "ipc-0",  meta |-> Meta("A", "b] c")],
      [id |-> "ipc-1",  meta |-> Meta("A] b", "c")],
      [id |-> "bns-0",  meta |-> Meta("A", "b] c")],
      [id |-> "bns-1",  meta |-> Meta("BNS", LongText)],
      [id |-> "raw-0",  meta |-> <<>>] }

\* `${m.metadata?.source}` inside a template literal: undefined prints as
\* the text "undefined"
TemplateField(m, f) == IF m.meta = <<>> THEN "undefined" ELSE m.meta[1][f]

\* m.metadata?.source || "Legal Doc" : undefined and "" both fall back
OrElse(m, f, dflt) ==
    IF m.meta = <<>> \/ m.meta[1][f] = "" THEN dflt ELSE m.meta[1][f]

\* Array.prototype.join
RECURSIVE JoinWith(_, _)
JoinWith(parts, sep) ==
    IF parts = <<>> THEN ""
    ELSE IF Len(parts) = 1 THEN parts[1]
    ELSE parts[1] \o sep \o JoinWith(Tail(parts), sep)

\* [...(result1.matches || []), ...(result2.matches || [])]
Concat(l1, l2) == l1 \o l2

\* server.js:141  `[Source: ${m.metadata?.source}] ${m.metadata?.text}`
CompareRender(m) ==
    "[Source: " \o TemplateField(m, "source") \o "] " \o TemplateField(m, "text")

\* server.js:74
AskRender(m) ==
    "[Source Document: " \o OrElse(m, "source", "Legal Doc") \o "] \nContent: "
        \o OrElse(m, "text", "")

MapSeq(s, Op(_)) == [i \in DOMAIN s |-> Op(s[i])]

\* A dropped Set: every rendered passage is kept
UniqueKeepAll(texts) == texts

\* Array.from(new Set(texts)): a Set keeps the first insertion of each value
\* and iterates in insertion order
RECURSIVE Unique(_)
Unique(texts) ==
    IF texts = <<>> THEN <<>>
    ELSE LET front == Unique(SubSeq(texts, 1, Len(texts) - 1))
             last == texts[Len(texts)]
         IN  IF \E i \in DOMAIN front : front[i] = last
             THEN front ELSE Append(front, last)

\* server.js:140-141 up to the join
MergedTexts(l1, l2) == Unique(MapSeq(Concat(l1, l2), CompareRender))

UniqueContext(l1, l2) == JoinWith(MergedTexts(l1, l2), "\n\n")

\* server.js:73-75
AskContext(l) == JoinWith(MapSeq(l, AskRender), "\n\n----------------\n\n")

\* server.js:143  !uniqueContext || uniqueContext.length < 50
TooShort(context) == context = "" \/ Len(context) < MIN_CONTEXT

\* ------------------------------------------------------------------------
\* Retrieval server (server.js 27-191)
\* ------------------------------------------------------------------------
Reqs == 1..MaxReqs

\* what a store query can answer in the server model: no match, one record
\* without metadata (a short passage), one long passage
SrvReplies ==
    { <<>>,
      <<[id |-> "raw-0", meta |-> <<>>]>>,
      <<[id |-> "bns-1", meta |-> Meta("BNS", LongText)]>> }

NoReq ==
    [route |-> "none", pc |-> "idle", stage |-> 0, q |-> <<"none", "none">>,
     res |-> <<<<>>, <<>>>>, context |-> "", merged |-> FALSE, gen |-> 0,
     reply |-> "none", responses |-> 0]

\* res.status(code).json(...) or res.json(...): the handler ends and its
\* locals (the match lists, the context) are gone
Respond(rq, kind) ==
    [rq EXCEPT !.pc = "done", !.reply = kind, !.responses = @ + 1,
               !.res = <<<<>>, <<>>>>, !.context = ""]

\* server.js:36 / 131-132: getEmbedding up to its first await.  With the
\* embedder still null it calls loadModel, which starts pipeline() at once;
\* otherwise it starts the inference.
GetEmbeddingCall(r, rq) ==
    IF embedder
    THEN /\ req' = [req EXCEPT ![r] = [rq EXCEPT !.pc = "embedding"]]
         /\ UNCHANGED loadStarts
    ELSE /\ req' = [req EXCEPT ![r] = [rq EXCEPT !.pc = "loading"]]
         /\ loadStarts' = loadStarts + 1

\* server.js:188-189: the listen callback calls loadModel unconditionally
Listen ==
    /\ startup = "boot"
    /\ startup' = "loading"
    /\ loadStarts' = loadStarts + 1
    /\ UNCHANGED <<embedder, req, mergeVars, chunkVars, embedVars, ingVars>>

\* server.js:31-32, 190: pipeline() resolved for the startup load
StartupLoaded ==
    /\ startup = "loading"
    /\ embedder' = TRUE
    /\ startup' = "up"
    /\ UNCHANGED <<loadStarts, req, mergeVars, chunkVars, embedVars, ingVars>>

\* pipeline() rejected in the listen callback: nothing catches it and the
\* process ends on the unhandled rejection
StartupLoadFailed ==
    /\ startup = "loading"
    /\ startup' = "crashed"
    /\ UNCHANGED <<embedder, loadStarts, req, mergeVars, chunkVars, embedVars, ingVars>>

Serving == startup \in {"loading", "up"}

\* server.js:51-62 and 122-131: a request arrives; `valid` is whether the
\* body carries the query (both sections for /compare)
Arrive(r, route, valid) ==
    /\ Serving
    /\ req[r].pc = "idle"
    /\ IF valid
       THEN GetEmbeddingCall(r, [NoReq EXCEPT !.route = route, !.stage = 1])
       ELSE /\ req' = [req EXCEPT ![r] = Respond([NoReq EXCEPT !.route = route], "400")]
            /\ UNCHANGED loadStarts
    /\ UNCHANGED <<embedder, startup, mergeVars, chunkVars, embedVars, ingVars>>

\* server.js:31 inside a request: pipeline() resolved, embedder assigned,
\* getEmbedding goes on to the inference (server.js:38)
LoadModelDone(r) ==
    /\ Serving
    /\ req[r].pc = "loading"
    /\ embedder' = TRUE
    /\ req' = [req EXCEPT ![r].pc = "embedding"]
    /\ UNCHANGED <<loadStarts, startup, mergeVars, chunkVars, embedVars, ingVars>>

\* pipeline() rejected inside a request: the route's catch answers 500
LoadModelFailed(r) ==
    /\ Serving
    /\ req[r].pc = "loading"
    /\ req' = [req EXCEPT ![r] = Respond(@, "500")]
    /\ UNCHANGED <<embedder, loadStarts, startup, mergeVars, chunkVars, embedVars, ingVars>>

\* server.js:64-68 and 134-137: the store queries of a request whose query
\* vectors are ready.  /compare creates both query promises before
\* Promise.all is awaited.
IssueQueries(rq) ==
    IF rq.route = "ask"
    THEN [rq EXCEPT !.pc = "querying", !.q = <<"pending", "none">>]
    ELSE [rq EXCEPT !.pc = "joining", !.q = <<"pending", "pending">>]

\* server.js:38-40: the inference returned and getEmbedding returns the
\* array; /compare then embeds section2 (server.js:132)
Embedded(r) ==
    /\ Serving
    /\ req[r].pc = "embedding"
    /\ IF req[r].route = "compare" /\ req[r].stage = 1
       THEN GetEmbeddingCall(r, [req[r] EXCEPT !.stage = 2])
       ELSE /\ req' = [req EXCEPT ![r] = IssueQueries(@)]
            /\ UNCHANGED loadStarts
    /\ UNCHANGED <<embedder, startup, mergeVars, chunkVars, embedVars, ingVars>>

\* the inference threw
EmbedFailed(r) ==
    /\ Serving
    /\ req[r].pc = "embedding"
    /\ req' = [req EXCEPT ![r] = Respond(@, "500")]
    /\ UNCHANGED <<embedder, loadStarts, startup, mergeVars, chunkVars, embedVars, ingVars>>

\* server.js:70-100: /ask got its matches, assembles the context and calls
\* the generation service
AskQueried(r, matches) ==
    /\ Serving
    /\ req[r].route = "ask" /\ req[r].pc = "querying"
    /\ req' = [req EXCEPT ![r] = [@ EXCEPT !.q = <<"ok", "none">>,
                                          !.res = <<matches, <<>>>>,
                                          !.context = AskContext(matches),
                                          !.gen = @ + 1,
                                          !.pc = "generating"]]
    /\ UNCHANGED <<embedder, loadStarts, startup, mergeVars, chunkVars, embedVars, ingVars>>

AskQueryFailed(r) ==
    /\ Serving
    /\ req[r].route = "ask" /\ req[r].pc = "querying"
    /\ req' = [req EXCEPT ![r] = Respond([@ EXCEPT !.q = <<"fail", "none">>], "500")]
    /\ UNCHANGED <<embedder, loadStarts, startup, mergeVars, chunkVars, embedVars, ingVars>>

\* Promise.allSettled in place of Promise.all: waits for every query and
\* fulfils whatever their outcomes
AllSettled(q) ==
    IF \E k \in DOMAIN q : q[k] = "pending" THEN "pending" ELSE "fulfilled"

\* Promise.all (server.js:134): rejected as soon as one query is rejected,
\* fulfilled once all are fulfilled
PromiseAll(q) ==
    IF \E k \in DOMAIN q : q[k] = "fail" THEN "rejected"
    ELSE IF \A k \in DOMAIN q : q[k] = "ok" THEN "fulfilled"
    ELSE "pending"

\* server.js:140-147: merge, then the sentinel or the generation call
MergeAndAnswer(rq) ==
    LET lists == [k \in 1..2 |-> IF rq.q[k] = "ok" THEN rq.res[k] ELSE <<>>]
        uniqueContext == UniqueContext(lists[1], lists[2])
        m == [rq EXCEPT !.merged = TRUE, !.context = uniqueContext]
    IN  IF TooShort(uniqueContext)
        THEN Respond(m, "sentinel")
        ELSE [m EXCEPT !.gen = @ + 1, !.pc = "generating"]

\* the handler's continuation after `await Promise.all([...])`
AfterJoin(rq) ==
    IF rq.pc # "joining" THEN rq
    ELSE CASE PromiseAll(rq.q) = "rejected"  -> Respond(rq, "500")
           [] PromiseAll(rq.q) = "fulfilled" -> MergeAndAnswer(rq)
           [] OTHER -> rq

\* one of the two /compare queries settles (k = 1, 2), in either order,
\* also after the handler has already answered
SubQuerySettled(r, k, ok, matches) ==
    /\ Serving
    /\ req[r].route = "compare"
    /\ req[r].q[k] = "pending"
    /\ req' = [req EXCEPT ![r] =
                  AfterJoin([@ EXCEPT !.q[k] = IF ok THEN "ok" ELSE "fail",
                                      !.res[k] = IF ok THEN matches ELSE <<>>])]
    /\ UNCHANGED <<embedder, loadStarts, startup, mergeVars, chunkVars, embedVars, ingVars>>

\* server.js:102-114 and 169-177: the generation service answered
Generated(r) ==
    /\ Serving
    /\ req[r].pc = "generating"
    /\ req' = [req EXCEPT ![r] = Respond(@, "200")]
    /\ UNCHANGED <<embedder, loadStarts, startup, mergeVars, chunkVars, embedVars, ingVars>>

GenerationFailed(r) ==
    /\ Serving
    /\ req[r].pc = "generating"
    /\ req' = [req EXCEPT ![r] = Respond(@, "500")]
    /\ UNCHANGED <<embedder, loadStarts, startup, mergeVars, chunkVars, embedVars, ingVars>>

\* ------------------------------------------------------------------------
\* The merge on its own: both match lists drawn from bounded sets
\* ------------------------------------------------------------------------
RECURSIVE SeqsUpTo(_, _)
SeqsUpTo(S, n) ==
    IF n = 0 THEN {<<>>}
    ELSE LET shorter == SeqsUpTo(S, n - 1)
         IN  shorter \cup {Append(s, x) : s \in {t \in shorter : Len(t) = n - 1}, x \in S}

MatchLists == SeqsUpTo(MatchPool, MaxMatches)

SrvIdle ==
    /\ embedder = FALSE
    /\ loadStarts = 0
    /\ startup = "boot"
    /\ req = [r \in Reqs |-> NoReq]

MergeIdle ==
    /\ mpc = "idle"
    /\ result1 = <<>>
    /\ result2 = <<>>
    /\ uniqueTexts = <<>>

ChunkIdle ==
    /\ cpc = "idle"
    /\ rawLen = 0
    /\ ci = 0
    /\ chunks = <<>>

EmbedIdle ==
    /\ epc = "idle"
    /\ variant = "none"
    /\ modelOut = <<>>
    /\ embedding = Returned(<<>>)

NoFile == [pc |-> "idle", i |-> 0, vectors |-> <<>>, count |-> 0,
           tried |-> {}, embedded |-> {}, attempts |-> <<>>]

IngestIdle ==
    /\ ipc = "idle"
    /\ indexHost = ""
    /\ ingEmbedder = FALSE
    /\ files = <<>>
    /\ fi = 0
    /\ pf = NoFile
    /\ totalVectors = 0
    /\ processed = <<>>
    /\ store = {}
    /\ twice = FALSE
    /\ script = "http"
    /\ run = "first"
    /\ runLog = <<>>
    /\ firstRun = [store |-> {}, log |-> <<>>, counts |-> <<>>]

InitMerge ==
    /\ SrvIdle
    /\ ChunkIdle
    /\ EmbedIdle
    /\ IngestIdle
    /\ mpc = "queried"
    /\ result1 \in MatchLists
    /\ result2 \in MatchLists
    /\ uniqueTexts = <<>>

Merge ==
    /\ mpc = "queried"
    /\ uniqueTexts' = MergedTexts(result1, result2)
    /\ mpc' = "merged"
    /\ UNCHANGED <<result1, result2, srvVars, chunkVars, embedVars, ingVars>>

NextMerge == Merge

SpecMerge == InitMerge /\ [][NextMerge]_vars

InitServer == SrvIdle /\ MergeIdle /\ ChunkIdle /\ EmbedIdle /\ IngestIdle

NextServer ==
    \/ Listen
    \/ StartupLoaded
    \/ StartupLoadFailed
    \/ \E r \in Reqs, route \in {"ask", "compare"}, valid \in BOOLEAN : Arrive(r, route, valid)
    \/ \E r \in Reqs : LoadModelDone(r)
    \/ \E r \in Reqs : LoadModelFailed(r)
    \/ \E r \in Reqs : Embedded(r)
    \/ \E r \in Reqs : EmbedFailed(r)
    \/ \E r \in Reqs, matches \in SrvReplies : AskQueried(r, matches)
    \/ \E r \in Reqs : AskQueryFailed(r)
    \/ \E r \in Reqs, k \in 1..2, ok \in BOOLEAN, matches \in SrvReplies :
          SubQuerySettled(r, k, ok, matches)
    \/ \E r \in Reqs : Generated(r)
    \/ \E r \in Reqs : GenerationFailed(r)

SpecServer == InitServer /\ [][NextServer]_vars

\* ------------------------------------------------------------------------
\* Fixed-stride chunker (ingest.js 79-84)
\* ------------------------------------------------------------------------
Min(a, b) == IF a <= b THEN a ELSE b

\* a stride of a whole chunk: consecutive chunks share nothing
StrideNoOverlap == CHUNK_SIZE

\* ingest.js:81  i += (CHUNK_SIZE - OVERLAP)
Stride == CHUNK_SIZE - OVERLAP

\* ingest.js:82  rawText.substring(i, i + CHUNK_SIZE): the end is clamped to
\* the length of the text
Substring(len, from, to) == <<Min(from, len), Min(to, len)>>

ChunkLen(c) == c[2] - c[1]

\* ingest.js:83
ChunkKept(c) == ChunkLen(c) > MIN_CHUNK

InitChunk ==
    /\ SrvIdle
    /\ MergeIdle
    /\ EmbedIdle
    /\ IngestIdle
    /\ cpc = "loop"
    /\ rawLen \in 0..MaxTextLen
    /\ ci = 0
    /\ chunks = <<>>

\* one iteration of the for loop (ingest.js:81-84)
ChunkStep ==
    /\ cpc = "loop"
    /\ ci < rawLen
    /\ LET chunk == Substring(rawLen, ci, ci + CHUNK_SIZE)
       IN  chunks' = IF ChunkKept(chunk) THEN Append(chunks, chunk) ELSE chunks
    /\ ci' = ci + Stride
    /\ UNCHANGED <<cpc, rawLen, srvVars, mergeVars, embedVars, ingVars>>

\* the loop condition i < rawText.length fails
ChunkExit ==
    /\ cpc = "loop"
    /\ ci >= rawLen
    /\ cpc' = "done"
    /\ UNCHANGED <<rawLen, ci, chunks, srvVars, mergeVars, embedVars, ingVars>>

NextChunk == ChunkStep \/ ChunkExit

SpecChunk == InitChunk /\ [][NextChunk]_vars

\* ceil(a / b) for b > 0 and any integer a
CeilDiv(a, b) == -((-a) \div b)

Covered == \A p \in 0..(rawLen - 1) :
               \E k \in DOMAIN chunks : chunks[k][1] <= p /\ p < chunks[k][2]

\* each adjacent pair shares exactly OVERLAP characters, but for a pair whose
\* second chunk is the final one and shorter than CHUNK_SIZE
OverlapExact ==
    \A k \in 1..(Len(chunks) - 1) :
        \/ chunks[k][2] - chunks[k + 1][1] = OVERLAP
        \/ k + 1 = Len(chunks) /\ ChunkLen(chunks[k + 1]) < CHUNK_SIZE

CountNearFormula ==
    LET n == CeilDiv(rawLen - OVERLAP, CHUNK_SIZE - OVERLAP)
    IN  n - 1 <= Len(chunks) /\ Len(chunks) <= n + 1

Example2300 ==
    rawLen = 2300 => chunks = << <<0, 1000>>, <<800, 1800>>, <<1600, 2300>> >>

\* C9 as stated: for any text length L the chunks cover the text, adjacent
\* chunks share exactly OVERLAP characters (final shorter chunk excepted),
\* the count is ceil((L-O)/(S-O)) within 1, and L = 2300 gives the three
\* chunks [0,1000), [800,1800), [1600,2300).
ChunkerAnyLength ==
    cpc = "done" => Covered /\ OverlapExact /\ CountNearFormula /\ Example2300

\* C9 amended: the same for any text of more than MIN_CHUNK characters; a
\* shorter text yields no chunk (its only chunk is discarded).
ChunkerAboveMinimum ==
    cpc = "done" =>
        /\ rawLen > MIN_CHUNK => Covered
        /\ rawLen <= MIN_CHUNK => chunks = <<>>
        /\ OverlapExact /\ CountNearFormula /\ Example2300

\* 2450 characters: three chunks, the 50-character tail at offset 2400 is
\* discarded and still covered by the chunk before it
ChunkerWitness ==
    /\ cpc = "done"
    /\ rawLen = 2450
    /\ chunks = << <<0, 1000>>, <<800, 1800>>, <<1600, 2450>> >>

\* ------------------------------------------------------------------------
\* getEmbedding (server.js 35-41 and 228-240, debug_pdf.js 50-54)
\* ------------------------------------------------------------------------
\* a component of the Float32Array the model returns
Components == {"finite", "NaN", "+Infinity", "-Infinity"}

\* server.js:237  throw new Error("Embedding produced NaN values.")
EmbeddingError == [threw |-> TRUE, value |-> <<>>]

\* Number(n) of a number is that number: finite stays finite, NaN stays NaN,
\* an infinity stays that infinity
ToNumber(n) == n

\* the global isNaN: true of NaN alone, false of both infinities
IsNaN(n) == n = "NaN"

\* server.js:228-240 after the inference: map to numbers, throw on a NaN
GetEmbeddingIngestion(data) ==
    LET rawArray == [k \in DOMAIN data |-> ToNumber(data[k])]
    IN  IF \E k \in DOMAIN rawArray : IsNaN(rawArray[k])
        THEN EmbeddingError
        ELSE Returned(rawArray)

\* server.js:38-40: Array.from(output.data).map(Number), no check
GetEmbeddingServer(data) == Returned([k \in DOMAIN data |-> ToNumber(data[k])])

\* debug_pdf.js:52-53 and part_000:37-38: Array.from(output.data), no check
GetEmbeddingDebug(data) == Returned(data)

InitEmbed ==
    /\ SrvIdle
    /\ MergeIdle
    /\ ChunkIdle
    /\ IngestIdle
    /\ epc = "called"
    /\ variant \in {"ingestion", "server", "debug_pdf"}
    /\ modelOut \in SeqsUpTo(Components, EmbedDim)
    /\ embedding = Returned(<<>>)

\* the inference resolved with modelOut and getEmbedding settles
EmbedSettle ==
    /\ epc = "called"
    /\ embedding' = CASE variant = "ingestion" -> GetEmbeddingIngestion(modelOut)
                      [] variant = "server"    -> GetEmbeddingServer(modelOut)
                      [] OTHER                 -> GetEmbeddingDebug(modelOut)
    /\ epc' = "settled"
    /\ UNCHANGED <<variant, modelOut, srvVars, mergeVars, chunkVars, ingVars>>

NextEmbed == EmbedSettle

SpecEmbed == InitEmbed /\ [][NextEmbed]_vars

\* C10: getEmbedding never returns a vector with a non-finite component:
\* a model output holding NaN, +Infinity or -Infinity makes the call fail.
EmbeddingAlwaysFinite ==
    epc = "settled" =>
        IF \E k \in DOMAIN modelOut : modelOut[k] # "finite"
        THEN embedding.threw
        ELSE ~embedding.threw /\ \A k \in DOMAIN embedding.value : embedding.value[k] = "finite"

\* ------------------------------------------------------------------------
\* Multi-document ingestion over direct HTTP (server.js 192-402)
\* ------------------------------------------------------------------------
\* File names are sequences of characters.
NameA == <<"a", "_", "b", ".", "p", "d", "f">>
NameB == <<"a", "b", ".", "p", "d", "f">>
NameC == <<"c", ".", "p", "d", "f">>

\* what fs.readdirSync(DATA_DIR) filtered to PDFs can list
Listings == { <<>>, <<NameB>>, <<NameA, NameB>>, <<NameB, NameC>> }

\* what reading, parsing and splitting a file gives: a read or parse error,
\* a text of fewer than 100 characters, or n >= 1 chunks
Shapes(maxN) ==
    {[kind |-> "unreadable", n |-> 0], [kind |-> "short", n |-> 0]}
        \cup {[kind |-> "ok", n |-> n] : n \in 1..maxN}

Corpora(maxN) ==
    UNION { { [k \in DOMAIN l |-> [name |-> l[k], kind |-> sh[k].kind, n |-> sh[k].n]] :
                sh \in [DOMAIN l -> Shapes(maxN)] } : l \in Listings }

RECURSIVE SumN(_)
SumN(fs) == IF fs = <<>> THEN 0 ELSE Head(fs).n + SumN(Tail(fs))

AlphaNumeric ==
    {"a", "b", "c", "d", "e", "f", "g", "h", "i", "j", "k", "l", "m", "n", "o", "p",
     "q", "r", "s", "t", "u", "v", "w", "x", "y", "z",
     "A", "B", "C", "D", "E", "F", "G", "H", "I", "J", "K", "L", "M", "N", "O", "P",
     "Q", "R", "S", "T", "U", "V", "W", "X", "Y", "Z",
     "0", "1", "2", "3", "4", "5", "6", "7", "8", "9"}

IsAlphaNumeric(c) == c \in AlphaNumeric

\* server.js:243-245  str.replace(/[^a-zA-Z0-9]/g, '')
cleanString(str) == SelectSeq(str, IsAlphaNumeric)

\* String.prototype.replace(pattern, '') with a string pattern: the first
\* occurrence only
RemoveFirst(str, pat) ==
    LET hits == {k \in 1..(Len(str) - Len(pat) + 1) : SubSeq(str, k, k + Len(pat) - 1) = pat}
    IN  IF hits = {} THEN str
        ELSE LET k == CHOOSE h \in hits : \A g \in hits : h <= g
             IN  SubSeq(str, 1, k - 1) \o SubSeq(str, k + Len(pat), Len(str))

\* server.js:308  fileName.replace('.pdf', '').replace(/_/g, ' ')
ReadableSource(fileName) ==
    LET bare == RemoveFirst(fileName, <<".", "p", "d", "f">>)
    IN  [k \in DOMAIN bare |-> IF bare[k] = "_" THEN " " ELSE bare[k]]

\* an id that numbers the records kept so far instead of the chunks
RecordIdDense(idBase, i) == [base |-> idBase, n |-> pf.count + Len(pf.vectors)]

\* an id that differs from one run of the script to the next
RecordIdPerRun(idBase, i) == [base |-> idBase, n |-> i, stamp |-> run]

\* server.js:321  `${idBase}-${i}`, debug_pdf.js:99  `${fileName}-${i}`: the
\* index is what follows the last "-", so base and index determine the id
\* and the id determines them
RecordId(idBase, i) == [base |-> idBase, n |-> i]

\* chunks[i] of a file: the text is determined by the file and the position
ChunkText(f, i) == [doc |-> f.name, at |-> i]

\* server.js:309,321  idBase = cleanString(fileName);
\* debug_pdf.js:99  `${fileName}-${i}`: the file name itself
IdBase(fileName) == IF script = "sdk" THEN fileName ELSE cleanString(fileName)

\* server.js:320-328, debug_pdf.js:98-106
ChunkRecord(f, i, values) ==
    [id |-> RecordId(IdBase(f.name), i),
     values |-> values,
     metadata |-> [text |-> ChunkText(f, i), source |-> ReadableSource(f.name)]]

\* the vector store's upsert: a record replaces the stored record of the
\* same id (server.js:256 POST /vectors/upsert)
Upsert(st, vectors) ==
    LET ids == {vectors[k].id : k \in DOMAIN vectors}
    IN  {r \in st : r.id \notin ids}
            \cup {[id |-> vectors[k].id, metadata |-> vectors[k].metadata] : k \in DOMAIN vectors}

\* what the model returns for a chunk, when the inference does not throw
IngestOutputs ==
    { <<"finite", "finite">>, <<"finite", "NaN">>, <<"+Infinity", "finite">> }

\* what describeIndex answers as host; "" is a description without a host
Hosts == {"lawsphere.svc.pinecone.io", ""}

\* server.js:254  if (!indexHost) throw ...
HostReady == indexHost # ""

\* one call of directHttpUpsert: the records given, whether the call returned
\* (ok), whether the request went out (sent), whether the store applied it
Attempt(vectors, ok, sent) ==
    [recs |-> vectors, ok |-> ok, sent |-> sent, applied |-> ok]

\* server.js:263-278: the store applied the write and the call still threw:
\* fetch rejected after the request was served, or the body of the 2xx
\* response could not be read as JSON (await response.json())
LostReply(vectors) ==
    [recs |-> vectors, ok |-> FALSE, sent |-> TRUE, applied |-> TRUE]

Log(event) == IF twice THEN Append(runLog, event) ELSE runLog

\* directHttpUpsert throws before any request when the host is empty;
\* index.namespace(NAMESPACE).upsert of debug_pdf.js has no such guard
ThrowsUnsent == script = "http" /\ ~HostReady

\* debug_pdf.js:123-126: an error anywhere in processFile ends the file in
\* the one catch, which returns 0
OnFileError(p) == [p EXCEPT !.pc = "returned", !.count = 0]

\* server.js:348-355 reached with the loop over: processFile returns count;
\* debug_pdf.js:116 is in no try of its own
OnFinalBatchError(p) ==
    IF script = "sdk" THEN OnFileError(p) ELSE [p EXCEPT !.pc = "returned"]

\* server.js:347-358: the final batch
FinalBatch(p) ==
    IF p.vectors = <<>> THEN [p EXCEPT !.pc = "returned"]
    ELSE IF ThrowsUnsent
         THEN OnFinalBatchError([p EXCEPT !.attempts = Append(@, Attempt(p.vectors, FALSE, FALSE))])
         ELSE [p EXCEPT !.pc = "finalUpsert"]

\* server.js:311: i++ and the loop test; the next iteration starts the
\* chunk's getEmbedding call (the embedder is loaded, server.js:388)
Continue(p) ==
    IF p.i + 1 < files[fi].n
    THEN [p EXCEPT !.i = @ + 1, !.pc = "embedding", !.tried = @ \cup {p.i + 1}]
    ELSE FinalBatch(p)

\* a batch error that is not caught in the loop: it reaches the catch of
\* processFile (server.js:360-363), which returns 0
OnBatchErrorAbort(p) == [p EXCEPT !.pc = "returned", !.count = 0]

\* server.js:340-343: log, drop the batch, go on with the loop;
\* debug_pdf.js:110 is in no try of its own
OnBatchError(p) ==
    IF script = "sdk" THEN OnFileError(p) ELSE Continue([p EXCEPT !.vectors = <<>>])

\* server.js:335-344
FlushIfFull(p) ==
    IF Len(p.vectors) >= BATCH_SIZE
    THEN IF ThrowsUnsent
         THEN OnBatchError([p EXCEPT !.attempts = Append(@, Attempt(p.vectors, FALSE, FALSE))])
         ELSE [p EXCEPT !.pc = "upserting"]
    ELSE Continue(p)

\* server.js:317-333: getEmbedding settled with r for chunk i; a throw is
\* caught in the loop and the chunk skipped. debug_pdf.js:96-113: the call
\* is in no try of its own
AfterEmbedding(p, r) ==
    IF r.threw /\ script = "sdk" THEN OnFileError(p)
    ELSE FlushIfFull(IF r.threw THEN p
                     ELSE [p EXCEPT !.vectors = Append(@, ChunkRecord(files[fi], p.i, r.value)),
                                    !.embedded = @ \cup {p.i}])

InitRun ==
    /\ ipc = "resolving"
    /\ indexHost = ""
    /\ ingEmbedder = FALSE
    /\ fi = 0
    /\ pf = NoFile
    /\ totalVectors = 0
    /\ processed = <<>>
    /\ store = {}
    /\ run = "first"
    /\ runLog = <<>>
    /\ firstRun = [store |-> {}, log |-> <<>>, counts |-> <<>>]

InitIngest ==
    /\ SrvIdle /\ MergeIdle /\ ChunkIdle /\ EmbedIdle
    /\ InitRun
    /\ twice = FALSE
    /\ script = "http"
    /\ files \in Corpora(MaxChunks)

\* server.js:379-381: describeIndex resolved; main goes on to loadModel
Resolved(host) ==
    /\ ipc = "resolving"
    /\ indexHost' = host
    /\ ipc' = "loading"
    /\ runLog' = Log(host)
    /\ UNCHANGED <<ingEmbedder, files, fi, pf, totalVectors, processed, store, twice, script,
                   run, firstRun, srvVars, mergeVars, chunkVars, embedVars>>

\* server.js:382-386: describeIndex rejected; main returns
ResolveFailed ==
    /\ ipc = "resolving"
    /\ ipc' = "aborted"
    /\ runLog' = Log("resolve failed")
    /\ UNCHANGED <<indexHost, ingEmbedder, files, fi, pf, totalVectors, processed, store,
                   twice, script, run, firstRun, srvVars, mergeVars, chunkVars, embedVars>>

\* server.js:388-395: the model is loaded, the directory is listed and the
\* first file, if any, is given to processFile; debug_pdf.js:139-154 returns
\* without a grand total when no PDF is listed
ModelLoaded ==
    /\ ipc = "loading"
    /\ ingEmbedder' = TRUE
    /\ IF files = <<>>
       THEN ipc' = (IF script = "sdk" THEN "nofiles" ELSE "done") /\ UNCHANGED <<fi, pf>>
       ELSE ipc' = "processing" /\ fi' = 1 /\ pf' = [NoFile EXCEPT !.pc = "reading"]
    /\ runLog' = Log("loaded")
    /\ UNCHANGED <<indexHost, files, totalVectors, processed, store, twice, script, run, firstRun,
                   srvVars, mergeVars, chunkVars, embedVars>>

\* server.js:388: pipeline() rejected; the await is in no try block, main
\* rejects and the run ends there
ModelLoadFailed ==
    /\ ipc = "loading"
    /\ ipc' = "crashed"
    /\ runLog' = Log("load failed")
    /\ UNCHANGED <<indexHost, ingEmbedder, files, fi, pf, totalVectors, processed, store,
                   twice, script, run, firstRun, srvVars, mergeVars, chunkVars, embedVars>>

\* server.js:285-318: read, parse, sanitize, split; an unreadable file ends
\* in the catch (return 0), a short text returns 0, otherwise the loop
\* starts with chunk 0
ReadFile ==
    /\ ipc = "processing"
    /\ pf.pc = "reading"
    /\ pf' = IF files[fi].kind = "ok"
             THEN [pf EXCEPT !.pc = "embedding", !.i = 0, !.tried = {0}]
             ELSE [pf EXCEPT !.pc = "returned"]
    /\ UNCHANGED <<ipc, indexHost, ingEmbedder, files, fi, totalVectors, processed, store,
                   twice, script, run, runLog, firstRun, srvVars, mergeVars, chunkVars, embedVars>>

\* the inference of chunk i resolved with output data
ChunkInferred(data) ==
    /\ ipc = "processing"
    /\ pf.pc = "embedding"
    /\ LET r == IF script = "sdk" THEN GetEmbeddingDebug(data)
                ELSE GetEmbeddingIngestion(data)
       IN  /\ pf' = AfterEmbedding(pf, r)
           /\ runLog' = Log(IF r.threw THEN "skipped" ELSE "embedded")
    /\ UNCHANGED <<ipc, indexHost, ingEmbedder, files, fi, totalVectors, processed, store,
                   twice, script, run, firstRun, srvVars, mergeVars, chunkVars, embedVars>>

\* the inference of chunk i threw
ChunkInferenceFailed ==
    /\ ipc = "processing"
    /\ pf.pc = "embedding"
    /\ pf' = AfterEmbedding(pf, EmbeddingError)
    /\ runLog' = Log("skipped")
    /\ UNCHANGED <<ipc, indexHost, ingEmbedder, files, fi, totalVectors, processed, store,
                   twice, script, run, firstRun, srvVars, mergeVars, chunkVars, embedVars>>

\* server.js:337-343 with 263-278: the store answered the upsert of a full
\* batch, with 2xx (ok) or not
UpsertReplied(ok) ==
    /\ ipc = "processing"
    /\ pf.pc = "upserting"
    /\ LET logged == [pf EXCEPT !.attempts = Append(@, Attempt(pf.vectors, ok, TRUE))]
       IN  IF ok
           THEN /\ store' = Upsert(store, pf.vectors)
                /\ pf' = Continue([logged EXCEPT !.count = @ + Len(pf.vectors),
                                                 !.vectors = <<>>])
           ELSE /\ store' = store
                /\ pf' = OnBatchError(logged)
    /\ runLog' = Log(IF ok THEN "stored" ELSE "rejected")
    /\ UNCHANGED <<ipc, indexHost, ingEmbedder, files, fi, totalVectors, processed,
                   twice, script, run, firstRun, srvVars, mergeVars, chunkVars, embedVars>>

\* server.js:348-355: the store answered the upsert of the final batch
FinalUpsertReplied(ok) ==
    /\ ipc = "processing"
    /\ pf.pc = "finalUpsert"
    /\ LET logged == [pf EXCEPT !.attempts = Append(@, Attempt(pf.vectors, ok, TRUE))]
       IN  IF ok
           THEN /\ store' = Upsert(store, pf.vectors)
                /\ pf' = [logged EXCEPT !.count = @ + Len(pf.vectors), !.pc = "returned"]
           ELSE /\ store' = store
                /\ pf' = OnFinalBatchError(logged)
    /\ runLog' = Log(IF ok THEN "stored" ELSE "rejected")
    /\ UNCHANGED <<ipc, indexHost, ingEmbedder, files, fi, totalVectors, processed,
                   twice, script, run, firstRun, srvVars, mergeVars, chunkVars, embedVars>>

\* server.js:337-343 with 263-278: the store applied the upsert of a full
\* batch, and the call threw all the same
UpsertReplyLost ==
    /\ ipc = "processing"
    /\ pf.pc = "upserting"
    /\ store' = Upsert(store, pf.vectors)
    /\ pf' = OnBatchError([pf EXCEPT !.attempts = Append(@, LostReply(pf.vectors))])
    /\ runLog' = Log("unread")
    /\ UNCHANGED <<ipc, indexHost, ingEmbedder, files, fi, totalVectors, processed,
                   twice, script, run, firstRun, srvVars, mergeVars, chunkVars, embedVars>>

\* server.js:348-355 with 263-278: the same for the final batch
FinalUpsertReplyLost ==
    /\ ipc = "processing"
    /\ pf.pc = "finalUpsert"
    /\ store' = Upsert(store, pf.vectors)
    /\ pf' = OnFinalBatchError([pf EXCEPT !.attempts = Append(@, LostReply(pf.vectors))])
    /\ runLog' = Log("unread")
    /\ UNCHANGED <<ipc, indexHost, ingEmbedder, files, fi, totalVectors, processed,
                   twice, script, run, firstRun, srvVars, mergeVars, chunkVars, embedVars>>

\* server.js:394-399: processFile returned; main adds the count and goes to
\* the next file, or prints the grand total
FileReturned ==
    /\ ipc = "processing"
    /\ pf.pc = "returned"
    /\ totalVectors' = totalVectors + pf.count
    /\ processed' = Append(processed, [file |-> fi, count |-> pf.count,
                                       rejected |-> \E a \in DOMAIN pf.attempts : ~pf.attempts[a].ok])
    /\ IF fi < Len(files)
       THEN /\ fi' = fi + 1
            /\ pf' = [NoFile EXCEPT !.pc = "reading"]
            /\ ipc' = ipc
       ELSE /\ ipc' = "done"
            /\ UNCHANGED <<fi, pf>>
    /\ UNCHANGED <<indexHost, ingEmbedder, files, store, twice, script, run, runLog, firstRun,
                   srvVars, mergeVars, chunkVars, embedVars>>

NextIngest ==
    \/ \E host \in Hosts : Resolved(host)
    \/ ResolveFailed
    \/ ModelLoaded
    \/ ModelLoadFailed
    \/ ReadFile
    \/ \E data \in IngestOutputs : ChunkInferred(data)
    \/ ChunkInferenceFailed
    \/ \E ok \in BOOLEAN : UpsertReplied(ok)
    \/ \E ok \in BOOLEAN : FinalUpsertReplied(ok)
    \/ UpsertReplyLost
    \/ FinalUpsertReplyLost
    \/ FileReturned

SpecIngest == InitIngest /\ [][NextIngest]_vars

\* every awaited call of main and processFile settles, one way or the other,
\* and the continuation then runs
SpecIngestFair == SpecIngest /\ WF_vars(NextIngest)

\* ------------------------------------------------------------------------
\* The ingestion script run a second time over the same files
\* ------------------------------------------------------------------------
InitReingest ==
    /\ SrvIdle /\ MergeIdle /\ ChunkIdle /\ EmbedIdle
    /\ InitRun
    /\ twice = TRUE
    /\ script = "http"
    /\ files \in {c \in Corpora(MaxReChunks) : SumN(c) <= MaxReChunks}

\* the script has printed its grand total and is started again: a new
\* process (server.js:219-220 initial values), the same files, the store as
\* the first run left it
RunAgain ==
    /\ twice
    /\ run = "first"
    /\ ipc = "done"
    /\ firstRun' = [store |-> store, log |-> runLog, counts |-> processed]
    /\ run' = "second"
    /\ ipc' = "resolving"
    /\ indexHost' = ""
    /\ ingEmbedder' = FALSE
    /\ fi' = 0
    /\ pf' = NoFile
    /\ totalVectors' = 0
    /\ processed' = <<>>
    /\ runLog' = <<>>
    /\ UNCHANGED <<files, store, twice, script, srvVars, mergeVars, chunkVars, embedVars>>

NextReingest == NextIngest \/ RunAgain

SpecReingest == InitReingest /\ [][NextReingest]_vars

\* ------------------------------------------------------------------------
\* The client-library ingestion (debug_pdf.js) on its own
\* ------------------------------------------------------------------------
\* debug_pdf.js:129-139: main has no endpoint to resolve; it starts with
\* loadModel
InitSdk ==
    /\ SrvIdle /\ MergeIdle /\ ChunkIdle /\ EmbedIdle
    /\ ipc = "loading"
    /\ indexHost = ""
    /\ ingEmbedder = FALSE
    /\ fi = 0
    /\ pf = NoFile
    /\ totalVectors = 0
    /\ processed = <<>>
    /\ store = {}
    /\ run = "first"
    /\ runLog = <<>>
    /\ firstRun = [store |-> {}, log |-> <<>>, counts |-> <<>>]
    /\ twice = FALSE
    /\ script = "sdk"
    /\ files \in Corpora(MaxChunks)

NextSdk ==
    \/ ModelLoaded
    \/ ModelLoadFailed
    \/ ReadFile
    \/ \E data \in IngestOutputs : ChunkInferred(data)
    \/ ChunkInferenceFailed
    \/ \E ok \in BOOLEAN : UpsertReplied(ok)
    \/ \E ok \in BOOLEAN : FinalUpsertReplied(ok)
    \/ UpsertReplyLost
    \/ FinalUpsertReplyLost
    \/ FileReturned

SpecSdk == InitSdk /\ [][NextSdk]_vars

\* ------------------------------------------------------------------------
\* The two ingestion scripts run over the same files, each on an empty store
\* ------------------------------------------------------------------------
InitTransports ==
    /\ SrvIdle /\ MergeIdle /\ ChunkIdle /\ EmbedIdle
    /\ InitRun
    /\ twice = TRUE
    /\ script = "http"
    /\ files \in {c \in Corpora(MaxReChunks) : SumN(c) <= MaxReChunks}

\* server.js has printed its grand total; debug_pdf.js is started on the
\* same files against an empty namespace (debug_pdf.js:42 initial value,
\* main at 129)
RunOtherTransport ==
    /\ twice
    /\ run = "first"
    /\ ipc = "done"
    /\ firstRun' = [store |-> store, log |-> runLog, counts |-> processed]
    /\ run' = "second"
    /\ script' = "sdk"
    /\ store' = {}
    /\ ipc' = "loading"
    /\ indexHost' = ""
    /\ ingEmbedder' = FALSE
    /\ fi' = 0
    /\ pf' = NoFile
    /\ totalVectors' = 0
    /\ processed' = <<>>
    /\ runLog' = <<>>
    /\ UNCHANGED <<files, twice, srvVars, mergeVars, chunkVars, embedVars>>

NextTransports == NextIngest \/ RunOtherTransport

SpecTransports == InitTransports /\ [][NextTransports]_vars

\* ------------------------------------------------------------------------
\* Properties of the ingestion
\* ------------------------------------------------------------------------
FileDone == ipc \in {"processing", "done"} /\ pf.pc = "returned" /\ files[fi].kind = "ok"

\* attempt a of the current file carries chunk j
InAttempt(a, j) ==
    \E k \in DOMAIN pf.attempts[a].recs : pf.attempts[a].recs[k].metadata.text.at = j

RECURSIVE StoredCount(_)
StoredCount(attempts) ==
    IF attempts = <<>> THEN 0
    ELSE (IF Head(attempts).ok THEN Len(Head(attempts).recs) ELSE 0) + StoredCount(Tail(attempts))

\* C2: a failed upsert, of a full batch or of the remainder, drops that
\* batch only: when processFile returns, every chunk of the document was
\* given to getEmbedding, every embedded chunk was in exactly one upsert
\* attempt (none is retried, none is lost before an attempt), the count
\* holds the accepted batches only, and main ends having called processFile
\* for every file of the listing, in order.
BatchFailureIsolated ==
    /\ FileDone =>
        /\ pf.tried = 0..(files[fi].n - 1)
        /\ \A j \in pf.embedded :
              Cardinality({a \in DOMAIN pf.attempts : InAttempt(a, j)}) = 1
        /\ pf.count = StoredCount(pf.attempts)
    /\ ipc = "done" =>
        /\ Len(processed) = Len(files)
        /\ \A k \in DOMAIN processed : processed[k].file = k

\* the first file had a rejected batch; in the second file the full batch
\* was rejected, the remainder was then sent and stored, and main finished
BatchFailureWitness ==
    /\ ipc = "done"
    /\ Len(processed) = 2
    /\ processed[1].rejected
    /\ Len(pf.attempts) = 2
    /\ ~pf.attempts[1].ok /\ pf.attempts[1].sent /\ Len(pf.attempts[1].recs) = BATCH_SIZE
    /\ pf.attempts[2].ok
    /\ pf.count = 1

\* C3: a chunk whose embedding fails is skipped, not fatal: it is in no
\* upsert batch, every other chunk is still embedded and batched, and every
\* record, in a batch or stored, has the id built from the original index
\* of its chunk.
EmbedFailureSkipped ==
    /\ FileDone =>
        /\ pf.tried = 0..(files[fi].n - 1)
        /\ \A j \in pf.tried \ pf.embedded :
              \A a \in DOMAIN pf.attempts : ~InAttempt(a, j)
        /\ \A j \in pf.embedded :
              \E a \in DOMAIN pf.attempts : InAttempt(a, j)
        /\ \A a \in DOMAIN pf.attempts : \A k \in DOMAIN pf.attempts[a].recs :
              pf.attempts[a].recs[k].id =
                  [base |-> cleanString(files[fi].name),
                   n |-> pf.attempts[a].recs[k].metadata.text.at]
    /\ \A r \in store : r.id.n = r.metadata.text.at

\* chunk 1 of three failed to embed; chunks 0 and 2 were sent together and
\* chunk 2 is stored under index 2
EmbedFailureWitness ==
    /\ FileDone
    /\ files[fi].n = 3
    /\ pf.embedded = {0, 2}
    /\ Len(pf.attempts) = 1 /\ pf.attempts[1].ok
    /\ \E r \in store : r.id = [base |-> cleanString(files[fi].name), n |-> 2]
                        /\ r.metadata.text = ChunkText(files[fi], 2)

\* C8: endpoint resolution failure is the only fatal failure of ingestion;
\* when describeIndex fails the model is never loaded, no file is processed
\* and no upsert is sent; and no upsert request is sent while the host is
\* unresolved.
EndpointFailureOnlyFatal ==
    /\ ipc # "crashed"
    /\ ipc = "aborted" =>
          ~ingEmbedder /\ fi = 0 /\ processed = <<>> /\ pf.attempts = <<>> /\ store = {}
    /\ \A a \in DOMAIN pf.attempts : pf.attempts[a].sent => HostReady

\* the parts of C8 that hold: the consequences of a failed resolution and
\* the host guard of directHttpUpsert
EndpointFailureAborts ==
    /\ ipc = "aborted" =>
          ~ingEmbedder /\ fi = 0 /\ processed = <<>> /\ pf.attempts = <<>> /\ store = {}
    /\ \A a \in DOMAIN pf.attempts : pf.attempts[a].sent => HostReady

\* C4 as stated: after the second run the store holds the same ids with the
\* same text as after the first run.
ReingestSameStore ==
    (run = "second" /\ ipc = "done") => store = firstRun.store

\* C4 amended: when the second run meets the same embedding failures and
\* the same rejected batches as the first, the store is the same after it;
\* in every case no id is stored twice and no id of the first run is gone.
ReingestOverwrites ==
    /\ (run = "second" /\ ipc = "done" /\ runLog = firstRun.log) => store = firstRun.store
    /\ \A r, t \in store : r.id = t.id => r = t
    /\ run = "second" => \A r \in firstRun.store : \E t \in store : t.id = r.id

\* both runs stored the same two or more records, the first run having lost
\* a chunk or a batch in the same place
ReingestWitness ==
    /\ run = "second" /\ ipc = "done"
    /\ runLog = firstRun.log
    /\ \E k \in DOMAIN runLog : runLog[k] \in {"skipped", "rejected"}
    /\ Cardinality(store) >= 2
    /\ store = firstRun.store

RECURSIVE AppliedCount(_)
AppliedCount(attempts) ==
    IF attempts = <<>> THEN 0
    ELSE (IF Head(attempts).applied THEN Len(Head(attempts).recs) ELSE 0)
             + AppliedCount(Tail(attempts))

RECURSIVE SumCounts(_)
SumCounts(results) ==
    IF results = <<>> THEN 0 ELSE Head(results).count + SumCounts(Tail(results))

\* C11: the count processFile returns for a document is the number of that
\* document's records the store stored (no record of a failed batch is
\* counted, no stored record is left uncounted), and the grand total of main
\* is the sum of the per-document counts.
CountsAreStoredCounts ==
    /\ FileDone => pf.count = AppliedCount(pf.attempts)
    /\ ipc = "done" => totalVectors = SumCounts(processed)

\* the part of C11 that holds: the count is the number of records in the
\* batches whose upsert call returned, and the grand total is the sum
CountsAreAcknowledgedCounts ==
    /\ FileDone => pf.count = StoredCount(pf.attempts)
    /\ ipc = "done" => totalVectors = SumCounts(processed)

\* the outcomes of the units of work: chunk embeddings and batch upserts
UnitEvents == {"embedded", "skipped", "stored", "rejected", "unread"}

IsUnitEvent(e) == e \in UnitEvents

\* C12: run on the same documents with the same chunks, the same embedding
\* outcomes and the same accepted and rejected batches, the client-library
\* ingestion leaves the store with the same records (ids and metadata) as
\* the direct-HTTP ingestion, and reports the same counts.
TransportsSameEffect ==
    (/\ run = "second" /\ script = "sdk" /\ ipc \in {"done", "nofiles"}
     /\ SelectSeq(runLog, IsUnitEvent) = SelectSeq(firstRun.log, IsUnitEvent))
        => /\ store = firstRun.store
           /\ processed = firstRun.counts

\* what the two transports do agree on: the counts, when no unit fails
TransportsSameCounts ==
    (/\ run = "second" /\ script = "sdk" /\ ipc \in {"done", "nofiles"}
     /\ SelectSeq(runLog, IsUnitEvent) = SelectSeq(firstRun.log, IsUnitEvent)
     /\ \A k \in DOMAIN runLog : runLog[k] \notin {"skipped", "rejected", "unread"})
        => processed = firstRun.counts

\* C13: every upsert attempt of processFile carries at least 1 and at most
\* BATCH_SIZE records, all of the current document, in increasing chunk
\* order; the buffer is flushed as soon as it holds BATCH_SIZE records;
\* when processFile returns, every embedded chunk was in exactly one upsert
\* attempt; and a new document starts with an empty buffer.
BatchDiscipline ==
    /\ \A a \in DOMAIN pf.attempts :
          LET recs == pf.attempts[a].recs
          IN  /\ Len(recs) >= 1 /\ Len(recs) <= BATCH_SIZE
              /\ \A k \in DOMAIN recs : recs[k].metadata.text.doc = files[fi].name
              /\ \A k, l \in DOMAIN recs :
                    k < l => recs[k].metadata.text.at < recs[l].metadata.text.at
    /\ pf.pc = "embedding" => Len(pf.vectors) < BATCH_SIZE
    /\ pf.pc = "upserting" => Len(pf.vectors) = BATCH_SIZE
    /\ pf.pc = "reading" => pf.vectors = <<>> /\ pf.attempts = <<>>
    /\ FileDone =>
          \A j \in pf.embedded :
              Cardinality({a \in DOMAIN pf.attempts : InAttempt(a, j)}) = 1

\* the part of C13 that holds in debug_pdf.js too: the shape of the batches
\* and the flush at BATCH_SIZE
BatchShape ==
    /\ \A a \in DOMAIN pf.attempts :
          LET recs == pf.attempts[a].recs
          IN  /\ Len(recs) >= 1 /\ Len(recs) <= BATCH_SIZE
              /\ \A k \in DOMAIN recs : recs[k].metadata.text.doc = files[fi].name
              /\ \A k, l \in DOMAIN recs :
                    k < l => recs[k].metadata.text.at < recs[l].metadata.text.at
    /\ pf.pc = "embedding" => Len(pf.vectors) < BATCH_SIZE
    /\ pf.pc = "upserting" => Len(pf.vectors) = BATCH_SIZE
    /\ pf.pc = "reading" => pf.vectors = <<>> /\ pf.attempts = <<>>

AllProcessedInOrder ==
    /\ Len(processed) = Len(files)
    /\ \A k \in DOMAIN processed : processed[k].file = k

\* C14: once the endpoint is resolved, the run reaches the grand-total
\* report with every document processed exactly once in listing order,
\* whatever documents are skipped and whatever chunks and batches fail.
ResolvedRunTerminates ==
    (ipc = "loading") ~> (ipc = "done" /\ AllProcessedInOrder)

\* the part of C14 that holds: once main is in the document loop it reaches
\* the grand total with every document processed once, in order
LoopTerminates ==
    (ipc = "processing") ~> (ipc = "done" /\ AllProcessedInOrder)

\* the files of the listing have pairwise distinct names
DistinctNames == \A k, l \in DOMAIN files : k # l => files[k].name # files[l].name

\* C15: over documents with pairwise distinct file names, a record about to
\* be written has the id of a stored record only if it is the same chunk
\* index of the same document: no document's record is overwritten by a
\* record of another document.
RecordIdsUniqueAcrossDocuments ==
    DistinctNames =>
        \A k \in DOMAIN pf.vectors : \A r \in store :
            r.id = pf.vectors[k].id => r.metadata.text = pf.vectors[k].metadata.text

\* the part of C15 that holds: the same, over documents whose names still
\* differ after cleanString
RecordIdsUniqueAcrossCleanNames ==
    (\A k, l \in DOMAIN files : k # l => cleanString(files[k].name) # cleanString(files[l].name)) =>
        \A k \in DOMAIN pf.vectors : \A r \in store :
            r.id = pf.vectors[k].id => r.metadata.text = pf.vectors[k].metadata.text

\* C1: for every interleaving of the startup load and the requests'
\* getEmbedding calls, loadModel starts the model pipeline at most once.
LoadedAtMostOnce == loadStarts <= 1

\* C6: on no route is the generation service invoked with an assembled
\* context of fewer than 50 characters; such a request gets the sentinel as
\* a normal reply.
NoGenerationOnShortContext ==
    \A r \in Reqs :
        /\ req[r].pc = "generating" => Len(req[r].context) >= MIN_CONTEXT
        /\ req[r].reply = "sentinel" => req[r].responses = 1 /\ req[r].gen = 0

\* C7: in /compare both store queries are issued together, before either
\* result is awaited; the merge happens only with both fulfilled; and once
\* either query has failed the request has answered exactly once, with 500,
\* without merge, sentinel or generation call.
CompareJoin ==
    \A r \in Reqs :
        req[r].route = "compare" =>
            /\ (req[r].q[1] = "none") <=> (req[r].q[2] = "none")
            /\ req[r].merged => req[r].q = <<"ok", "ok">>
            /\ req[r].pc = "generating" => req[r].merged
            /\ (\E k \in 1..2 : req[r].q[k] = "fail") =>
                    /\ req[r].pc = "done"
                    /\ req[r].reply = "500"
                    /\ req[r].responses = 1
                    /\ ~req[r].merged
                    /\ req[r].gen = 0
            /\ req[r].responses <= 1

\* the first query succeeded, the second failed afterwards (and, in the
\* other request, both failed): one 500 each
CompareJoinWitness ==
    /\ req[1].route = "compare" /\ req[1].q = <<"ok", "fail">> /\ req[1].reply = "500"
    /\ req[2].route = "compare" /\ req[2].q = <<"fail", "fail">> /\ req[2].reply = "500"

\* C5: after the /compare merge every distinct rendered passage of the two
\* match lists occurs exactly once in the merged list, nothing else occurs
\* in it, and the passages stand in first-seen order over result1 followed
\* by result2.
AllRendered == MapSeq(Concat(result1, result2), CompareRender)

FirstSeen(t) == CHOOSE i \in DOMAIN AllRendered :
                    /\ AllRendered[i] = t
                    /\ \A j \in 1..(i - 1) : AllRendered[j] # t

MergeDedupFirstSeen ==
    mpc = "merged" =>
        /\ \A i \in DOMAIN AllRendered :
              Cardinality({k \in DOMAIN uniqueTexts : uniqueTexts[k] = AllRendered[i]}) = 1
        /\ \A k \in DOMAIN uniqueTexts :
              \E i \in DOMAIN AllRendered : AllRendered[i] = uniqueTexts[k]
        /\ \A k, l \in DOMAIN uniqueTexts :
              k < l => FirstSeen(uniqueTexts[k]) < FirstSeen(uniqueTexts[l])

\* a passage retrieved by both queries under different record ids, and twice
\* within the first list, survives once
MergeDedupWitness ==
    /\ mpc = "merged"
    /\ Len(result1) = 2 /\ Len(result2) = 2
    /\ result1[1].id = "ipc-0" /\ result1[2].id = "bns-0"
    /\ result2[1].id = "ipc-1" /\ result2[2].id = "raw-0"
    /\ uniqueTexts = <<CompareRender(result1[1]), CompareRender(result2[2])>>

====
